---- MODULE Spec2Model ----
(***************************************************************************)
(* Model of pkg/installer/install.go (MinIO Direct CSI installer).        *)
(*                                                                         *)
(* The process state is the two package-level CA bundle caches; the       *)
(* environment is the cluster (the objects stored behind the API and the  *)
(* schema versions it advertises).  Every exported installer function is  *)
(* one action.  A call is evaluated by threading a "world" record         *)
(* [store, trace] through the statements of the function; trace is the    *)
(* ordered list of externally visible effects of the call (writes to the  *)
(* writer, YAML logs, API calls) and ret its returned error.              *)
(***************************************************************************)
EXTENDS Integers, Sequences, FiniteSets, TLC

VARIABLES
    store,                      \* objects held by the cluster
    identity,                   \* the --identity the process was started with
    validationWebhookCaBundle,  \* package variable, install.go:41
    conversionWebhookCaBundle,  \* package variable, install.go:42
    calls,                      \* number of installer calls made so far
    trace,                      \* effects of the call that just returned, in order
    last,                       \* the call that just returned: function, arguments, result
    before                      \* the cluster as it was when that call started

vars == <<store, identity, validationWebhookCaBundle, conversionWebhookCaBundle,
          calls, trace, last, before>>

----------------------------------------------------------------------------
(* Bounds *)

\* number of distinct certificate triples getCerts can hand out
MaxCerts == 2
\* number of distinct random suffixes newRandomString can hand out
NumSuffixes == 2
\* number of installer calls in one run of the process
MaxCalls == 2

----------------------------------------------------------------------------
(* Names.  A name is a sequence of characters. *)

Identities == { <<"D", "_", "c">> }

\* a package constant whose value lives in another file: an opaque name
ConstName(id) == <<id>>

EmptyName == <<>>

SanitizeChar(c) ==
    CASE c = "D" -> "d"
      [] c = "C" -> "c"
      [] c \in {"d", "c", "-"} -> c
      [] OTHER -> "-"

SanitizeKubeResourceName(name) ==
    [i \in 1..Len(name) |-> SanitizeChar(name[i])]

\* package constants defined outside install.go
CreatedByLabel == "CreatedByLabel"
DirectCSIPluginName == "DirectCSIPluginName"
DirectCSI == "DirectCSI"
CSIDriver == "CSIDriver"
directCSISelector == "directCSISelector"
webhookSelector == "webhookSelector"
selectorValueEnabled == ConstName("selectorValueEnabled")
validationControllerName == ConstName("validationControllerName")
admissionWebhookSecretName == ConstName("admissionWebhookSecretName")
validationWebhookConfigName == ConstName("validationWebhookConfigName")
conversionKeyPair == ConstName("conversionKeyPair")
conversionCACert == ConstName("conversionCACert")
privateKeyFileName == "privateKeyFileName"
publicCertFileName == "publicCertFileName"
caCertFileName == "caCertFileName"
directCSIFinalizerDeleteProtection == "directCSIFinalizerDeleteProtection"

----------------------------------------------------------------------------
(* Errors *)

NoErr == "nil"
ErrKubeVersionNotSupported == "ErrKubeVersionNotSupported"
errEmptyCABundle == "errEmptyCABundle"
ErrNotFound == "NotFound"
ErrAlreadyExists == "AlreadyExists"
ErrOther == "OtherAPIError"
ErrWrite == "WriteError"
ErrCert == "CertError"

IsNotFound(err) == err = ErrNotFound
IsAlreadyExists(err) == err = ErrAlreadyExists

----------------------------------------------------------------------------
(* Byte blobs.  The empty blob is <<>>; getCerts hands out one of MaxCerts *)
(* triples; a blob put into the cluster by somebody else is Foreign.       *)

NoBytes == <<>>
CaOf(g) == <<"ca", g>>
PublicOf(g) == <<"cert", g>>
PrivateOf(g) == <<"key", g>>
ForeignCa == <<"ca", 0>>
ForeignPublic == <<"cert", 0>>
ForeignPrivate == <<"key", 0>>

getCerts(g, ok) ==
    IF ok
    THEN [ca |-> CaOf(g), public |-> PublicOf(g), private |-> PrivateOf(g), err |-> NoErr]
    ELSE [ca |-> NoBytes, public |-> NoBytes, private |-> NoBytes, err |-> ErrCert]

----------------------------------------------------------------------------
(* Objects *)

NoSpec == [none |-> TRUE]

BareMeta(name, namespace) ==
    [name |-> name, namespace |-> namespace, annotations |-> {}, labels |-> {},
     finalizers |-> <<>>]

NoObj == [kind |-> "", apiVersion |-> "", meta |-> BareMeta(EmptyName, EmptyName),
          spec |-> NoSpec]

objMeta(name) ==
    [name |-> SanitizeKubeResourceName(name),
     namespace |-> SanitizeKubeResourceName(name),
     annotations |-> { <<CreatedByLabel, DirectCSIPluginName>> },
     labels |-> { <<"app", DirectCSI>>, <<"type", CSIDriver>> },
     finalizers |-> <<>>]

----------------------------------------------------------------------------
(* Effects and the collaborators that produce them *)

Writers == {"nil", "good", "failing"}

Ev(ev, res, ns, name, obj, err) ==
    [ev |-> ev, res |-> res, ns |-> ns, name |-> name, obj |-> obj, err |-> err]

IsApi(e) == e.ev \in {"discover", "get", "create", "update"}

NumApi(tr) == Cardinality({i \in DOMAIN tr : IsApi(tr[i])})

\* the failAt-th API call of the current installer call fails in transport
Fails(w, failAt) == NumApi(w.trace) + 1 = failAt

Lookup(st, res, ns, name) ==
    {e \in st : e.res = res /\ e.ns = ns /\ e.obj.meta.name = name}

\* The cluster keeps the metadata of every object.  The installer only ever
\* reads back the body of a Secret, so the body is kept for Secrets only.
Stored(obj) == IF obj.kind = "Secret" THEN obj ELSE [obj EXCEPT !.spec = NoSpec]

Entry(res, ns, obj) == [res |-> res, ns |-> ns, obj |-> Stored(obj)]

\* the state a call runs against: the cluster, the package variables, and
\* what the call has done so far; ret/obj/version are the results of the
\* statement evaluated last
World(st, vca, cca) ==
    [store |-> st, validationWebhookCaBundle |-> vca, conversionWebhookCaBundle |-> cca,
     trace |-> <<>>, ret |-> NoErr, obj |-> NoObj, version |-> "", bytes |-> NoBytes]

WriteObject(w, writer, obj) ==
    IF writer = "nil"
    THEN [w EXCEPT !.ret = NoErr]
    ELSE LET err == IF writer = "good" THEN NoErr ELSE ErrWrite
         IN [w EXCEPT !.trace = Append(@, Ev("write", "", EmptyName, obj.meta.name, obj, err)),
                      !.ret = err]

LogYAML(w, obj) ==
    [w EXCEPT !.trace = Append(@, Ev("log", "", EmptyName, obj.meta.name, obj, NoErr)),
              !.ret = NoErr]

ClientCreate(w, res, ns, obj, failAt) ==
    LET err == IF Fails(w, failAt) THEN ErrOther
               ELSE IF Lookup(w.store, res, ns, obj.meta.name) # {} THEN ErrAlreadyExists
               ELSE NoErr
    IN [w EXCEPT !.store = IF err = NoErr THEN @ \cup {Entry(res, ns, obj)} ELSE @,
                 !.trace = Append(@, Ev("create", res, ns, obj.meta.name, obj, err)),
                 !.ret = err,
                 !.obj = NoObj]

ClientGet(w, res, ns, name, failAt) ==
    LET found == Lookup(w.store, res, ns, name)
        err == IF Fails(w, failAt) THEN ErrOther
               ELSE IF found = {} THEN ErrNotFound
               ELSE NoErr
    IN [w EXCEPT !.trace = Append(@, Ev("get", res, ns, name, NoObj, err)),
                 !.ret = err,
                 !.obj = IF err = NoErr THEN (CHOOSE e \in found : TRUE).obj ELSE NoObj]

ClientUpdate(w, res, ns, obj, failAt) ==
    LET found == Lookup(w.store, res, ns, obj.meta.name)
        err == IF Fails(w, failAt) THEN ErrOther
               ELSE IF found = {} THEN ErrNotFound
               ELSE NoErr
    IN [w EXCEPT !.store = IF err = NoErr THEN (@ \ found) \cup {Entry(res, ns, obj)} ELSE @,
                 !.trace = Append(@, Ev("update", res, ns, obj.meta.name, obj, err)),
                 !.ret = err,
                 !.obj = NoObj]

\* the version negotiator: the first candidate the cluster offers for the kind
GetGroupKindVersions(w, adv, kind, candidates, failAt) ==
    LET offered == {i \in DOMAIN candidates : candidates[i] \in adv[kind]}
        err == IF Fails(w, failAt) THEN ErrOther
               ELSE IF offered = {} THEN ErrKubeVersionNotSupported
               ELSE NoErr
    IN [w EXCEPT !.trace = Append(@, Ev("discover", kind, EmptyName, EmptyName, NoObj, err)),
                 !.ret = err,
                 !.version = IF err = NoErr
                             THEN candidates[CHOOSE i \in offered : \A j \in offered : i <= j]
                             ELSE ""]

----------------------------------------------------------------------------
(* CreateNamespace *)

NamespaceObj(id) ==
    [kind |-> "Namespace", apiVersion |-> "v1", meta |-> objMeta(id),
     spec |-> [finalizers |-> <<>>]]

CreateNamespaceRes(w, id, dryRun, writer, failAt) ==
    LET ns == NamespaceObj(id)
        w1 == WriteObject(w, writer, ns)
    IN IF w1.ret # NoErr THEN w1
       ELSE IF dryRun THEN LogYAML(w1, ns)
       ELSE ClientCreate(w1, "namespaces", EmptyName, ns, failAt)

----------------------------------------------------------------------------
(* CreateCSIDriver *)

Versions == {"v1", "v1beta1", "v1alpha1"}
Candidates == <<"v1", "v1beta1", "v1alpha1">>

CSIDriverObj(id, apiVersion) ==
    [kind |-> "CSIDriver", apiVersion |-> apiVersion, meta |-> objMeta(id),
     spec |-> [podInfoOnMount |-> TRUE, attachRequired |-> FALSE,
               volumeLifecycleModes |-> <<"Persistent", "Ephemeral">>]]

\* variant: a version the installer has no builder for is sent down the
\* v1beta1 branch instead of being refused
CreateCSIDriverRes_AlphaAsBeta(w, adv, id, dryRun, writer, failAt) ==
    LET gvk == GetGroupKindVersions(w, adv, "CSIDriver", Candidates, failAt)
        w0 == gvk
    IN IF gvk.ret # NoErr THEN w0
       ELSE CASE gvk.version = "v1" ->
                   LET csiDriver == CSIDriverObj(id, "storage.k8s.io/v1")
                       w1 == WriteObject(w0, writer, csiDriver)
                   IN IF w1.ret # NoErr THEN w1
                      ELSE IF dryRun THEN LogYAML(w1, csiDriver)
                      ELSE ClientCreate(w1, "csidrivers", EmptyName, csiDriver, failAt)
              [] OTHER ->
                   LET csiDriver == CSIDriverObj(id, "storage.k8s.io/v1beta1")
                   IN IF dryRun THEN LogYAML(w0, csiDriver)
                      ELSE ClientCreate(w0, "csidrivers", EmptyName, csiDriver, failAt)

CreateCSIDriverRes(w, adv, id, dryRun, writer, failAt) ==
    LET gvk == GetGroupKindVersions(w, adv, "CSIDriver", Candidates, failAt)
        w0 == gvk
    IN IF gvk.ret # NoErr THEN w0
       ELSE CASE gvk.version = "v1" ->
                   LET csiDriver == CSIDriverObj(id, "storage.k8s.io/v1")
                       w1 == WriteObject(w0, writer, csiDriver)
                   IN IF w1.ret # NoErr THEN w1
                      ELSE IF dryRun THEN LogYAML(w1, csiDriver)
                      ELSE ClientCreate(w1, "csidrivers", EmptyName, csiDriver, failAt)
              [] gvk.version = "v1beta1" ->
                   LET csiDriver == CSIDriverObj(id, "storage.k8s.io/v1beta1")
                   IN IF dryRun THEN LogYAML(w0, csiDriver)
                      ELSE ClientCreate(w0, "csidrivers", EmptyName, csiDriver, failAt)
              [] OTHER -> [w0 EXCEPT !.ret = ErrKubeVersionNotSupported]

----------------------------------------------------------------------------
(* CreateStorageClass *)

getTopologySelectorTerm(id) ==
    [key |-> "TopologyDriverIdentity", values |-> <<SanitizeKubeResourceName(id)>>]

StorageClassObj(id, apiVersion) ==
    [kind |-> "StorageClass", apiVersion |-> apiVersion, meta |-> objMeta(id),
     spec |-> [provisioner |-> SanitizeKubeResourceName(id),
               allowVolumeExpansion |-> FALSE,
               volumeBindingMode |-> "WaitForFirstConsumer",
               allowedTopologies |-> <<getTopologySelectorTerm(id)>>,
               reclaimPolicy |-> "Delete",
               parameters |-> { <<"fstype", "xfs">> }]]

CreateStorageClassRes(w, adv, id, dryRun, writer, failAt) ==
    LET gvk == GetGroupKindVersions(w, adv, "CSIDriver", Candidates, failAt)
        w0 == gvk
    IN IF gvk.ret # NoErr THEN w0
       ELSE CASE gvk.version = "v1" ->
                   LET storageClass == StorageClassObj(id, "storage.k8s.io/v1")
                       w1 == WriteObject(w0, writer, storageClass)
                   IN IF w1.ret # NoErr THEN w1
                      ELSE IF dryRun THEN LogYAML(w1, storageClass)
                      ELSE ClientCreate(w1, "storageclasses", EmptyName, storageClass, failAt)
              [] gvk.version = "v1beta1" ->
                   LET storageClass == StorageClassObj(id, "storage.k8s.io/v1beta1")
                       w1 == WriteObject(w0, writer, storageClass)
                   IN IF w1.ret # NoErr THEN w1
                      ELSE IF dryRun THEN LogYAML(w1, storageClass)
                      ELSE ClientCreate(w1, "storageclasses", EmptyName, storageClass, failAt)
              [] OTHER -> [w0 EXCEPT !.ret = ErrKubeVersionNotSupported]

----------------------------------------------------------------------------
(* CreateService *)

conversionWebhookPortName == ConstName("conversionWebhookPortName")
ConversionWebhookPort == ConstName("ConversionWebhookPort")

ServiceObj(id) ==
    [kind |-> "Service", apiVersion |-> "v1", meta |-> objMeta(id),
     spec |-> [ports |-> << [name |-> ConstName("unused"), port |-> ConstName("12345"),
                             targetPort |-> EmptyName],
                            [name |-> conversionWebhookPortName,
                             port |-> ConversionWebhookPort,
                             targetPort |-> conversionWebhookPortName] >>,
               selector |-> { <<webhookSelector, selectorValueEnabled>> }]]

CreateServiceRes(w, id, dryRun, writer, failAt) ==
    LET svc == ServiceObj(id)
        w1 == WriteObject(w, writer, svc)
    IN IF w1.ret # NoErr THEN w1
       ELSE IF dryRun THEN LogYAML(w1, svc)
       ELSE ClientCreate(w1, "services", SanitizeKubeResourceName(id), svc, failAt)

----------------------------------------------------------------------------
(* Selector token *)

RandChar(s) == <<"r", s>>

newRandomString(n, s) == [i \in 1..n |-> RandChar(s)]

generateSanitizedUniqueNameFrom(name, s) ==
    LET sanitized == SanitizeKubeResourceName(name)
        sanitizedName == IF Len(sanitized) >= 255 THEN SubSeq(sanitized, 1, 249)
                         ELSE sanitized
        shortUUID == newRandomString(5, s)
    IN sanitizedName \o <<"-">> \o shortUUID

----------------------------------------------------------------------------
(* Pod building blocks *)

Arg(flag, value) == [flag |-> flag, value |-> value]

newHostPathVolume(name, path) == [name |-> name, source |-> "hostPath", ref |-> path]

newSecretVolume(name, secretName) == [name |-> name, source |-> "secret", ref |-> secretName]

newDirectCSIPluginsSocketDir(kubeletDir, name) ==
    kubeletDir \o <<"/plugins/">> \o SanitizeKubeResourceName(name)

newVolumeMount(name, path, bidirectional, readOnly) ==
    [name |-> name, readOnly |-> readOnly, mountPath |-> path,
     mountPropagation |-> IF bidirectional THEN "Bidirectional" ELSE "None"]

getConversionWebhookDNSName(id) ==
    SanitizeKubeResourceName(id) \o <<".">> \o SanitizeKubeResourceName(id) \o <<".", "svc">>

getConversionHealthzURL(id) ==
    <<"https://">> \o getConversionWebhookDNSName(id) \o <<":">> \o ConversionWebhookPort
        \o ConstName("healthZContainerPortPath")

kubeletDirPath == ConstName("kubeletDirPath")
csiRootPath == ConstName("csiRootPath")
volumeNameSocketDir == ConstName("volumeNameSocketDir")
volumeNameMountpointDir == ConstName("volumeNameMountpointDir")
volumeNameRegistrationDir == ConstName("volumeNameRegistrationDir")
volumeNamePluginDir == ConstName("volumeNamePluginDir")
volumeNameCSIRootDir == ConstName("volumeNameCSIRootDir")
volumeNameSysDir == ConstName("volumeNameSysDir")
volumeNameDevDir == ConstName("volumeNameDevDir")
volumeNameRunUdevData == ConstName("volumeNameRunUdevData")
volumePathSocketDir == ConstName("volumePathSocketDir")
volumePathSysDir == ConstName("volumePathSysDir")
volumePathDevDir == ConstName("volumePathDevDir")
volumePathRunUdevData == ConstName("volumePathRunUdevData")
conversionCADir == ConstName("conversionCADir")
conversionCertsDir == ConstName("conversionCertsDir")
admissionControllerCertsDir == ConstName("admissionControllerCertsDir")
admissionCertsDir == ConstName("admissionCertsDir")
admissionControllerWebhookName == ConstName("admissionControllerWebhookName")
admissionControllerWebhookPort == ConstName("admissionControllerWebhookPort")
logLevel == ConstName("logLevel")
endpointEnvVarCSI == ConstName("endpointEnvVarCSI")
kubeNodeNameEnvVar == ConstName("kubeNodeNameEnvVar")
ApparmorAnnotationKey == "container.apparmor.security.beta.kubernetes.io/direct-csi"

\* a security context field that is left out (a nil pointer)
NoSeccompProfile == <<>>

NoSecurityContext == [privileged |-> FALSE, seccompProfile |-> NoSeccompProfile]

Container(name, args, securityContext, volumeMounts) ==
    [name |-> name, args |-> args, securityContext |-> securityContext,
     volumeMounts |-> volumeMounts]

----------------------------------------------------------------------------
(* CreateDaemonSet *)

\* the optional settings of a CreateDaemonSet call
DaemonSetFlags ==
    [loopBackOnly : BOOLEAN,
     seccompProfileName : {EmptyName, ConstName("seccomp-profile")},
     apparmorProfileName : {EmptyName, ConstName("apparmor-profile")},
     enableDynamicDiscovery : BOOLEAN]

DaemonSetObj(id, flags, generatedSelectorValue) ==
    LET name == SanitizeKubeResourceName(id)
        conversionHealthzURL == getConversionHealthzURL(id)
        securityContext ==
            [privileged |-> TRUE,
             seccompProfile |-> IF flags.seccompProfileName # EmptyName
                                THEN << [type |-> "Localhost",
                                         localhostProfile |-> flags.seccompProfileName] >>
                                ELSE NoSeccompProfile]
        volumes0 ==
            << newHostPathVolume(volumeNameSocketDir,
                                 newDirectCSIPluginsSocketDir(kubeletDirPath, name)),
               newHostPathVolume(volumeNameMountpointDir, kubeletDirPath \o <<"/pods">>),
               newHostPathVolume(volumeNameRegistrationDir,
                                 kubeletDirPath \o <<"/plugins_registry">>),
               newHostPathVolume(volumeNamePluginDir, kubeletDirPath \o <<"/plugins">>),
               newHostPathVolume(volumeNameCSIRootDir, csiRootPath),
               newSecretVolume(conversionCACert, conversionCACert),
               newSecretVolume(conversionKeyPair, conversionKeyPair) >>
        volumeMounts0 ==
            << newVolumeMount(volumeNameSocketDir, <<"/csi">>, FALSE, FALSE),
               newVolumeMount(volumeNameMountpointDir, kubeletDirPath \o <<"/pods">>,
                              TRUE, FALSE),
               newVolumeMount(volumeNamePluginDir, kubeletDirPath \o <<"/plugins">>,
                              TRUE, FALSE),
               newVolumeMount(volumeNameCSIRootDir, csiRootPath, TRUE, FALSE),
               newVolumeMount(conversionCACert, conversionCADir, FALSE, FALSE),
               newVolumeMount(conversionKeyPair, conversionCertsDir, FALSE, FALSE) >>
        volumes1 == Append(volumes0, newHostPathVolume(volumeNameSysDir, volumePathSysDir))
        volumeMounts1 ==
            Append(volumeMounts0, newVolumeMount(volumeNameSysDir, volumePathSysDir, TRUE, TRUE))
        volumes ==
            IF flags.enableDynamicDiscovery
            THEN volumes1 \o << newHostPathVolume(volumeNameDevDir, volumePathDevDir),
                                newHostPathVolume(volumeNameRunUdevData, volumePathRunUdevData) >>
            ELSE volumes1
        volumeMounts ==
            IF flags.enableDynamicDiscovery
            THEN volumeMounts1 \o
                 << newVolumeMount(volumeNameDevDir, volumePathDevDir, TRUE, TRUE),
                    newVolumeMount(volumeNameRunUdevData, volumePathRunUdevData, TRUE, TRUE) >>
            ELSE volumeMounts1
        driverArgs0 ==
            << Arg("--identity", name), Arg("-v", logLevel),
               Arg("--endpoint", endpointEnvVarCSI), Arg("--node-id", kubeNodeNameEnvVar),
               Arg("--conversion-healthz-url", conversionHealthzURL),
               Arg("--driver", EmptyName) >>
        driverArgs1 == IF flags.loopBackOnly
                       THEN Append(driverArgs0, Arg("--loopback-only", EmptyName))
                       ELSE driverArgs0
        driverArgs == IF flags.enableDynamicDiscovery
                      THEN Append(driverArgs1, Arg("--enable-dynamic-discovery", EmptyName))
                      ELSE driverArgs1
        containers ==
            << Container(ConstName("nodeDriverRegistrarContainerName"),
                         << Arg("--v", logLevel),
                            Arg("--csi-address", <<"unix:///csi/csi.sock">>),
                            Arg("--kubelet-registration-path",
                                newDirectCSIPluginsSocketDir(kubeletDirPath, name)
                                    \o <<"/csi.sock">>) >>,
                         NoSecurityContext,
                         << newVolumeMount(volumeNameSocketDir, volumePathSocketDir, FALSE, FALSE),
                            newVolumeMount(volumeNameRegistrationDir, <<"/registration">>,
                                           FALSE, FALSE) >>),
               Container(ConstName("directCSIContainerName"), driverArgs, securityContext,
                         volumeMounts),
               Container(ConstName("livenessProbeContainerName"),
                         << Arg("--csi-address", <<"/csi/csi.sock">>),
                            Arg("--health-port", <<"9898">>) >>,
                         NoSecurityContext,
                         << newVolumeMount(volumeNameSocketDir, volumePathSocketDir,
                                           FALSE, FALSE) >>) >>
        podSpec ==
            [serviceAccountName |-> name, hostIPC |-> TRUE, hostPID |-> TRUE,
             hostNetwork |-> flags.enableDynamicDiscovery,
             dnsPolicy |-> IF flags.enableDynamicDiscovery
                           THEN "ClusterFirstWithHostNet" ELSE "",
             volumes |-> volumes, containers |-> containers]
        annotations0 == { <<CreatedByLabel, DirectCSIPluginName>> }
        annotations ==
            IF flags.apparmorProfileName # EmptyName
            THEN annotations0 \cup { <<ApparmorAnnotationKey, flags.apparmorProfileName>> }
            ELSE annotations0
    IN [kind |-> "DaemonSet", apiVersion |-> "apps/v1", meta |-> objMeta(id),
        spec |-> [selector |-> { <<directCSISelector, generatedSelectorValue>> },
                  template |->
                      [meta |-> [name |-> SanitizeKubeResourceName(name),
                                 namespace |-> SanitizeKubeResourceName(name),
                                 annotations |-> annotations,
                                 labels |-> { <<directCSISelector, generatedSelectorValue>>,
                                              <<webhookSelector, selectorValueEnabled>> },
                                 finalizers |-> <<>>],
                       spec |-> podSpec]]]

\* variant: the daemon set is built as if dynamic discovery were always off
CreateDaemonSetRes_IgnoresDiscovery(w, id, flags, s, dryRun, writer, failAt) ==
    LET name == SanitizeKubeResourceName(id)
        generatedSelectorValue == generateSanitizedUniqueNameFrom(name, s)
        daemonset == DaemonSetObj(id, [flags EXCEPT !.enableDynamicDiscovery = FALSE],
                                  generatedSelectorValue)
        w1 == WriteObject(w, writer, daemonset)
    IN IF w1.ret # NoErr THEN w1
       ELSE IF dryRun THEN LogYAML(w1, daemonset)
       ELSE ClientCreate(w1, "daemonsets", SanitizeKubeResourceName(id), daemonset, failAt)

CreateDaemonSetRes(w, id, flags, s, dryRun, writer, failAt) ==
    LET name == SanitizeKubeResourceName(id)
        generatedSelectorValue == generateSanitizedUniqueNameFrom(name, s)
        daemonset == DaemonSetObj(id, flags, generatedSelectorValue)
        w1 == WriteObject(w, writer, daemonset)
    IN IF w1.ret # NoErr THEN w1
       ELSE IF dryRun THEN LogYAML(w1, daemonset)
       ELSE ClientCreate(w1, "daemonsets", SanitizeKubeResourceName(id), daemonset, failAt)

----------------------------------------------------------------------------
(* CreateControllerService, CreateControllerSecret *)

SecretObj(name, namespace, data) ==
    [kind |-> "Secret", apiVersion |-> "v1", meta |-> BareMeta(name, namespace),
     spec |-> [data |-> data]]

ControllerServiceObj(generatedSelectorValue, id) ==
    [kind |-> "Service", apiVersion |-> "v1",
     meta |-> BareMeta(validationControllerName, SanitizeKubeResourceName(id)),
     spec |-> [ports |-> << [name |-> EmptyName, port |-> admissionControllerWebhookPort,
                             targetPort |-> admissionControllerWebhookName] >>,
               selector |-> { <<directCSISelector, generatedSelectorValue>> }]]

CreateControllerServiceRes(w, generatedSelectorValue, id, dryRun, failAt) ==
    LET svc == ControllerServiceObj(generatedSelectorValue, id)
    IN IF dryRun THEN LogYAML(w, svc)
       ELSE ClientCreate(w, "services", SanitizeKubeResourceName(id), svc, failAt)

ControllerSecretObj(id, publicCertBytes, privateKeyBytes) ==
    SecretObj(admissionWebhookSecretName, SanitizeKubeResourceName(id),
              { <<privateKeyFileName, privateKeyBytes>>, <<publicCertFileName, publicCertBytes>> })

CreateControllerSecretRes(w, id, publicCertBytes, privateKeyBytes, dryRun, failAt) ==
    LET secret == ControllerSecretObj(id, publicCertBytes, privateKeyBytes)
    IN IF dryRun THEN LogYAML(w, secret)
       ELSE ClientCreate(w, "secrets", SanitizeKubeResourceName(id), secret, failAt)

----------------------------------------------------------------------------
(* CreateDeployment *)

DeploymentObj(id, generatedSelectorValue) ==
    LET name == SanitizeKubeResourceName(id)
        conversionHealthzURL == getConversionHealthzURL(id)
        privileged == [privileged |-> TRUE, seccompProfile |-> NoSeccompProfile]
        podSpec ==
            [serviceAccountName |-> name, hostIPC |-> FALSE, hostPID |-> FALSE,
             hostNetwork |-> FALSE, dnsPolicy |-> "",
             volumes |->
                 << newHostPathVolume(volumeNameSocketDir,
                        newDirectCSIPluginsSocketDir(kubeletDirPath,
                                                     name \o <<"-controller">>)),
                    newSecretVolume(admissionControllerCertsDir, admissionWebhookSecretName),
                    newSecretVolume(conversionCACert, conversionCACert),
                    newSecretVolume(conversionKeyPair, conversionKeyPair) >>,
             containers |->
                 << Container(ConstName("csiProvisionerContainerName"),
                              << Arg("--v", logLevel), Arg("--timeout", <<"300s">>),
                                 Arg("--csi-address", endpointEnvVarCSI),
                                 Arg("--leader-election", EmptyName),
                                 Arg("--feature-gates", <<"Topology=true">>),
                                 Arg("--strict-topology", EmptyName) >>,
                              privileged,
                              << newVolumeMount(volumeNameSocketDir, volumePathSocketDir,
                                                FALSE, FALSE) >>),
                    Container(ConstName("directCSIContainerName"),
                              << Arg("-v", logLevel), Arg("--identity", name),
                                 Arg("--endpoint", endpointEnvVarCSI),
                                 Arg("--conversion-healthz-url", conversionHealthzURL),
                                 Arg("--controller", EmptyName) >>,
                              privileged,
                              << newVolumeMount(volumeNameSocketDir, volumePathSocketDir,
                                                FALSE, FALSE),
                                 newVolumeMount(admissionControllerCertsDir, admissionCertsDir,
                                                FALSE, FALSE),
                                 newVolumeMount(conversionCACert, conversionCADir, FALSE, FALSE),
                                 newVolumeMount(conversionKeyPair, conversionCertsDir,
                                                FALSE, FALSE) >>) >>]
    IN [kind |-> "Deployment", apiVersion |-> "apps/v1",
        meta |-> [objMeta(id) EXCEPT !.finalizers =
                      << SanitizeKubeResourceName(id)
                             \o ConstName(directCSIFinalizerDeleteProtection) >>],
        spec |-> [replicas |-> 3,
                  selector |-> { <<directCSISelector, generatedSelectorValue>> },
                  template |->
                      [meta |-> [name |-> SanitizeKubeResourceName(name),
                                 namespace |-> SanitizeKubeResourceName(name),
                                 annotations |-> { <<CreatedByLabel, DirectCSIPluginName>> },
                                 labels |-> { <<directCSISelector, generatedSelectorValue>>,
                                              <<webhookSelector, selectorValueEnabled>> },
                                 finalizers |-> <<>>],
                       spec |-> podSpec]]]

\* variant: AlreadyExists is swallowed for the deployment create as well
CreateDeploymentRes_ToleratesDeploymentExists(w, id, s, g, certOk, dryRun, writer, failAt) ==
    LET name == SanitizeKubeResourceName(id)
        generatedSelectorValue == generateSanitizedUniqueNameFrom(name, s)
        certs == getCerts(g, certOk)
        w1 == [w EXCEPT !.validationWebhookCaBundle = certs.ca]
        w2 == CreateControllerSecretRes(w1, id, certs.public, certs.private, dryRun, failAt)
        deployment == DeploymentObj(id, generatedSelectorValue)
        w3 == WriteObject(w2, writer, deployment)
        w4 == ClientCreate(w3, "deployments", SanitizeKubeResourceName(id), deployment, failAt)
    IN IF certs.err # NoErr THEN [w EXCEPT !.ret = certs.err]
       ELSE IF w2.ret # NoErr /\ ~IsAlreadyExists(w2.ret) THEN w2
       ELSE IF w3.ret # NoErr THEN w3
       ELSE IF dryRun THEN LogYAML(w3, deployment)
       ELSE IF w4.ret # NoErr /\ ~IsAlreadyExists(w4.ret) THEN w4
       ELSE CreateControllerServiceRes(w4, generatedSelectorValue, id, dryRun, failAt)

\* variant: the controller service gets a selector token of its own
CreateDeploymentRes_SecondToken(w, id, s, g, certOk, dryRun, writer, failAt) ==
    LET name == SanitizeKubeResourceName(id)
        generatedSelectorValue == generateSanitizedUniqueNameFrom(name, s)
        serviceSelectorValue == generateSanitizedUniqueNameFrom(name, (s % NumSuffixes) + 1)
        certs == getCerts(g, certOk)
        w1 == [w EXCEPT !.validationWebhookCaBundle = certs.ca]
        w2 == CreateControllerSecretRes(w1, id, certs.public, certs.private, dryRun, failAt)
        deployment == DeploymentObj(id, generatedSelectorValue)
        w3 == WriteObject(w2, writer, deployment)
        w4 == ClientCreate(w3, "deployments", SanitizeKubeResourceName(id), deployment, failAt)
    IN IF certs.err # NoErr THEN [w EXCEPT !.ret = certs.err]
       ELSE IF w2.ret # NoErr /\ ~IsAlreadyExists(w2.ret) THEN w2
       ELSE IF w3.ret # NoErr THEN w3
       ELSE IF dryRun THEN LogYAML(w3, deployment)
       ELSE IF w4.ret # NoErr THEN w4
       ELSE CreateControllerServiceRes(w4, serviceSelectorValue, id, dryRun, failAt)

\* variant: the controller service is created before the deployment
CreateDeploymentRes_ServiceFirst(w, id, s, g, certOk, dryRun, writer, failAt) ==
    LET name == SanitizeKubeResourceName(id)
        generatedSelectorValue == generateSanitizedUniqueNameFrom(name, s)
        certs == getCerts(g, certOk)
        w1 == [w EXCEPT !.validationWebhookCaBundle = certs.ca]
        w2 == CreateControllerSecretRes(w1, id, certs.public, certs.private, dryRun, failAt)
        deployment == DeploymentObj(id, generatedSelectorValue)
        w3 == WriteObject(w2, writer, deployment)
        w4 == CreateControllerServiceRes(w3, generatedSelectorValue, id, dryRun, failAt)
        w5 == ClientCreate(w4, "deployments", SanitizeKubeResourceName(id), deployment, failAt)
    IN IF certs.err # NoErr THEN [w EXCEPT !.ret = certs.err]
       ELSE IF w2.ret # NoErr /\ ~IsAlreadyExists(w2.ret) THEN w2
       ELSE IF w3.ret # NoErr THEN w3
       ELSE IF dryRun THEN LogYAML(w3, deployment)
       ELSE IF w4.ret # NoErr THEN w4
       ELSE w5

CreateDeploymentRes(w, id, s, g, certOk, dryRun, writer, failAt) ==
    LET name == SanitizeKubeResourceName(id)
        generatedSelectorValue == generateSanitizedUniqueNameFrom(name, s)
        certs == getCerts(g, certOk)
        w1 == [w EXCEPT !.validationWebhookCaBundle = certs.ca]
        w2 == CreateControllerSecretRes(w1, id, certs.public, certs.private, dryRun, failAt)
        deployment == DeploymentObj(id, generatedSelectorValue)
        w3 == WriteObject(w2, writer, deployment)
        w4 == ClientCreate(w3, "deployments", SanitizeKubeResourceName(id), deployment, failAt)
    IN IF certs.err # NoErr THEN [w EXCEPT !.ret = certs.err]
       ELSE IF w2.ret # NoErr /\ ~IsAlreadyExists(w2.ret) THEN w2
       ELSE IF w3.ret # NoErr THEN w3
       ELSE IF dryRun THEN LogYAML(w3, deployment)
       ELSE IF w4.ret # NoErr THEN w4
       ELSE CreateControllerServiceRes(w4, generatedSelectorValue, id, dryRun, failAt)

----------------------------------------------------------------------------
(* RegisterDriveValidationRules *)

\* variant: the webhook configuration refers to the service by the plugin name
getDriveValidatingWebhookConfig_RefByIdentity(w, id) ==
    LET name == SanitizeKubeResourceName(id)
        serviceRef == [namespace |-> name, name |-> name,
                       path |-> <<"/validatedrive">>]
        clientConfig == [service |-> serviceRef, caBundle |-> w.validationWebhookCaBundle]
        rules == << [operations |-> <<"UPDATE">>, apiGroups |-> <<"*">>,
                     apiVersions |-> <<"*">>, resources |-> <<"directcsidrives">>] >>
    IN [kind |-> "ValidatingWebhookConfiguration",
        apiVersion |-> "admissionregistration.k8s.io/v1",
        meta |-> [BareMeta(validationWebhookConfigName, name) EXCEPT !.finalizers =
                      << SanitizeKubeResourceName(id)
                             \o ConstName(directCSIFinalizerDeleteProtection) >>],
        spec |-> [webhooks |->
                      << [name |-> validationWebhookConfigName,
                          clientConfig |-> clientConfig,
                          admissionReviewVersions |-> <<"v1", "v1beta1", "v1beta2", "v1beta3">>,
                          sideEffects |-> "None",
                          rules |-> rules] >>]]

getDriveValidatingWebhookConfig(w, id) ==
    LET name == SanitizeKubeResourceName(id)
        serviceRef == [namespace |-> name, name |-> validationControllerName,
                       path |-> <<"/validatedrive">>]
        clientConfig == [service |-> serviceRef, caBundle |-> w.validationWebhookCaBundle]
        rules == << [operations |-> <<"UPDATE">>, apiGroups |-> <<"*">>,
                     apiVersions |-> <<"*">>, resources |-> <<"directcsidrives">>] >>
    IN [kind |-> "ValidatingWebhookConfiguration",
        apiVersion |-> "admissionregistration.k8s.io/v1",
        meta |-> [BareMeta(validationWebhookConfigName, name) EXCEPT !.finalizers =
                      << SanitizeKubeResourceName(id)
                             \o ConstName(directCSIFinalizerDeleteProtection) >>],
        spec |-> [webhooks |->
                      << [name |-> validationWebhookConfigName,
                          clientConfig |-> clientConfig,
                          admissionReviewVersions |-> <<"v1", "v1beta1", "v1beta2", "v1beta3">>,
                          sideEffects |-> "None",
                          rules |-> rules] >>]]

RegisterDriveValidationRulesRes(w, id, dryRun, writer, failAt) ==
    LET driveValidatingWebhookConfig == getDriveValidatingWebhookConfig(w, id)
        w1 == WriteObject(w, writer, driveValidatingWebhookConfig)
    IN IF w1.ret # NoErr THEN w1
       ELSE IF dryRun THEN LogYAML(w1, driveValidatingWebhookConfig)
       ELSE ClientCreate(w1, "validatingwebhookconfigurations", EmptyName,
                         driveValidatingWebhookConfig, failAt)

----------------------------------------------------------------------------
(* Conversion webhook secrets *)

\* variant: an existing secret is taken as already installed and left alone
CreateOrUpdateConversionKeyPairSecretRes_SkipsUpdate(w, id, publicCertBytes, privateKeyBytes, dryRun, writer, failAt) ==
    LET ns == SanitizeKubeResourceName(id)
        secret == SecretObj(conversionKeyPair, ns,
                            { <<privateKeyFileName, privateKeyBytes>>,
                              <<publicCertFileName, publicCertBytes>> })
        w1 == WriteObject(w, writer, secret)
        w2 == ClientGet(w1, "secrets", ns, conversionKeyPair, failAt)
    IN IF w1.ret # NoErr THEN w1
       ELSE IF dryRun THEN LogYAML(w1, secret)
       ELSE IF w2.ret # NoErr
            THEN IF ~IsNotFound(w2.ret) THEN w2
                 ELSE ClientCreate(w2, "secrets", ns, secret, failAt)
       ELSE w2

CreateOrUpdateConversionKeyPairSecretRes(w, id, publicCertBytes, privateKeyBytes, dryRun, writer, failAt) ==
    LET ns == SanitizeKubeResourceName(id)
        secret == SecretObj(conversionKeyPair, ns,
                            { <<privateKeyFileName, privateKeyBytes>>,
                              <<publicCertFileName, publicCertBytes>> })
        w1 == WriteObject(w, writer, secret)
        w2 == ClientGet(w1, "secrets", ns, conversionKeyPair, failAt)
        existingSecret == [w2.obj EXCEPT !.spec.data = secret.spec.data]
    IN IF w1.ret # NoErr THEN w1
       ELSE IF dryRun THEN LogYAML(w1, secret)
       ELSE IF w2.ret # NoErr
            THEN IF ~IsNotFound(w2.ret) THEN w2
                 ELSE ClientCreate(w2, "secrets", ns, secret, failAt)
       ELSE ClientUpdate(w2, "secrets", ns, existingSecret, failAt)

\* variant: the dryRun test is missing
CreateOrUpdateConversionCACertSecretRes_IgnoresDryRun(w, id, caCertBytes, dryRun, writer, failAt) ==
    LET ns == SanitizeKubeResourceName(id)
        secret == SecretObj(conversionCACert, ns, { <<caCertFileName, caCertBytes>> })
        w1 == WriteObject(w, writer, secret)
        w2 == ClientGet(w1, "secrets", ns, conversionCACert, failAt)
        existingSecret == [w2.obj EXCEPT !.spec.data = secret.spec.data]
    IN IF w1.ret # NoErr THEN w1
       ELSE IF w2.ret # NoErr
            THEN IF ~IsNotFound(w2.ret) THEN w2
                 ELSE ClientCreate(w2, "secrets", ns, secret, failAt)
       ELSE ClientUpdate(w2, "secrets", ns, existingSecret, failAt)

\* variant: every fetch error is taken for NotFound
CreateOrUpdateConversionCACertSecretRes_CreatesOnAnyError(w, id, caCertBytes, dryRun, writer, failAt) ==
    LET ns == SanitizeKubeResourceName(id)
        secret == SecretObj(conversionCACert, ns, { <<caCertFileName, caCertBytes>> })
        w1 == WriteObject(w, writer, secret)
        w2 == ClientGet(w1, "secrets", ns, conversionCACert, failAt)
        existingSecret == [w2.obj EXCEPT !.spec.data = secret.spec.data]
    IN IF w1.ret # NoErr THEN w1
       ELSE IF dryRun THEN LogYAML(w1, secret)
       ELSE IF w2.ret # NoErr
            THEN ClientCreate(w2, "secrets", ns, secret, failAt)
       ELSE ClientUpdate(w2, "secrets", ns, existingSecret, failAt)

CreateOrUpdateConversionCACertSecretRes(w, id, caCertBytes, dryRun, writer, failAt) ==
    LET ns == SanitizeKubeResourceName(id)
        secret == SecretObj(conversionCACert, ns, { <<caCertFileName, caCertBytes>> })
        w1 == WriteObject(w, writer, secret)
        w2 == ClientGet(w1, "secrets", ns, conversionCACert, failAt)
        existingSecret == [w2.obj EXCEPT !.spec.data = secret.spec.data]
    IN IF w1.ret # NoErr THEN w1
       ELSE IF dryRun THEN LogYAML(w1, secret)
       ELSE IF w2.ret # NoErr
            THEN IF ~IsNotFound(w2.ret) THEN w2
                 ELSE ClientCreate(w2, "secrets", ns, secret, failAt)
       ELSE ClientUpdate(w2, "secrets", ns, existingSecret, failAt)

getCABundlerFromGlobal(w) ==
    IF Len(w.conversionWebhookCaBundle) = 0
    THEN [w EXCEPT !.bytes = NoBytes, !.ret = errEmptyCABundle]
    ELSE [w EXCEPT !.bytes = w.conversionWebhookCaBundle, !.ret = NoErr]

\* variant: NotFound falls back to the cache without looking at dryRun
GetConversionCABundleRes_FallbackAlways(w, id, dryRun, failAt) ==
    LET w1 == ClientGet(w, "secrets", SanitizeKubeResourceName(id), conversionCACert, failAt)
        hits == {kv \in w1.obj.spec.data : kv[1] = caCertFileName}
    IN IF w1.ret # NoErr
       THEN IF IsNotFound(w1.ret) THEN getCABundlerFromGlobal(w1)
            ELSE [w1 EXCEPT !.bytes = NoBytes]
       ELSE IF hits # {}
            THEN [w1 EXCEPT !.bytes = (CHOOSE kv \in hits : TRUE)[2], !.ret = NoErr]
            ELSE [w1 EXCEPT !.bytes = NoBytes, !.ret = errEmptyCABundle]

GetConversionCABundleRes(w, id, dryRun, failAt) ==
    LET w1 == ClientGet(w, "secrets", SanitizeKubeResourceName(id), conversionCACert, failAt)
        hits == {kv \in w1.obj.spec.data : kv[1] = caCertFileName}
    IN IF w1.ret # NoErr
       THEN IF IsNotFound(w1.ret) /\ dryRun THEN getCABundlerFromGlobal(w1)
            ELSE [w1 EXCEPT !.bytes = NoBytes]
       ELSE IF hits # {}
            THEN [w1 EXCEPT !.bytes = (CHOOSE kv \in hits : TRUE)[2], !.ret = NoErr]
            ELSE [w1 EXCEPT !.bytes = NoBytes, !.ret = errEmptyCABundle]

checkConversionSecrets(w, id, failAt) ==
    LET ns == SanitizeKubeResourceName(id)
        w1 == ClientGet(w, "secrets", ns, conversionKeyPair, failAt)
    IN IF w1.ret # NoErr THEN w1
       ELSE ClientGet(w1, "secrets", ns, conversionCACert, failAt)

\* variant: only the secret that is missing is reconciled
CreateConversionWebhookSecretsRes_OnlyMissing(w, id, g, certOk, dryRun, writer, failAt) ==
    LET w1 == checkConversionSecrets(w, id, failAt)
        keyPairPresent ==
            Lookup(w.store, "secrets", SanitizeKubeResourceName(id), conversionKeyPair) # {}
        certs == getCerts(g, certOk)
        w2 == [w1 EXCEPT !.conversionWebhookCaBundle = certs.ca]
        w3 == IF keyPairPresent THEN [w2 EXCEPT !.ret = NoErr]
              ELSE CreateOrUpdateConversionKeyPairSecretRes(w2, id, certs.public,
                                                            certs.private, dryRun, writer, failAt)
    IN IF w1.ret = NoErr THEN w1
       ELSE IF ~IsNotFound(w1.ret) THEN w1
       ELSE IF certs.err # NoErr THEN [w1 EXCEPT !.ret = certs.err]
       ELSE IF w3.ret # NoErr THEN w3
       ELSE CreateOrUpdateConversionCACertSecretRes(w3, id, certs.ca, dryRun, writer, failAt)

\* variant: the certificates are generated and cached before the check
CreateConversionWebhookSecretsRes_GeneratesFirst(w, id, g, certOk, dryRun, writer, failAt) ==
    LET certs == getCerts(g, certOk)
        w0 == [w EXCEPT !.conversionWebhookCaBundle = certs.ca]
        w1 == checkConversionSecrets(w0, id, failAt)
        w3 == CreateOrUpdateConversionKeyPairSecretRes(w1, id, certs.public, certs.private,
                                                       dryRun, writer, failAt)
    IN IF certs.err # NoErr THEN [w EXCEPT !.ret = certs.err]
       ELSE IF w1.ret = NoErr THEN w1
       ELSE IF ~IsNotFound(w1.ret) THEN w1
       ELSE IF w3.ret # NoErr THEN w3
       ELSE CreateOrUpdateConversionCACertSecretRes(w3, id, certs.ca, dryRun, writer, failAt)

CreateConversionWebhookSecretsRes(w, id, g, certOk, dryRun, writer, failAt) ==
    LET w1 == checkConversionSecrets(w, id, failAt)
        certs == getCerts(g, certOk)
        w2 == [w1 EXCEPT !.conversionWebhookCaBundle = certs.ca]
        w3 == CreateOrUpdateConversionKeyPairSecretRes(w2, id, certs.public, certs.private,
                                                       dryRun, writer, failAt)
    IN IF w1.ret = NoErr THEN w1
       ELSE IF ~IsNotFound(w1.ret) THEN w1
       ELSE IF certs.err # NoErr THEN [w1 EXCEPT !.ret = certs.err]
       ELSE IF w3.ret # NoErr THEN w3
       ELSE CreateOrUpdateConversionCACertSecretRes(w3, id, certs.ca, dryRun, writer, failAt)

----------------------------------------------------------------------------
(* State machine *)

Kinds == {"CSIDriver", "StorageClass"}
NoAdv == [k \in Kinds |-> {}]
NoArgs == [ca |-> NoBytes, public |-> NoBytes, private |-> NoBytes]

Call(op, dryRun, writer, adv, args) ==
    [op |-> op, dryRun |-> dryRun, writer |-> writer, adv |-> adv, args |-> args,
     ret |-> NoErr, bytes |-> NoBytes]

NoCall == Call("", FALSE, "nil", NoAdv, NoArgs)

\* what somebody else may have left in the cluster before the process starts
ForeignKeyPairSecret(id) ==
    [SecretObj(conversionKeyPair, SanitizeKubeResourceName(id),
               { <<privateKeyFileName, ForeignPrivate>>,
                 <<publicCertFileName, ForeignPublic>> })
        EXCEPT !.meta.labels = { <<"owner", "other">> }]

ForeignCASecret(id, withKey) ==
    [SecretObj(conversionCACert, SanitizeKubeResourceName(id),
               IF withKey THEN { <<caCertFileName, ForeignCa>> }
               ELSE { <<"other.pem", ForeignCa>> })
        EXCEPT !.meta.labels = { <<"owner", "other">> }]

InitStores(id) ==
    LET ns == SanitizeKubeResourceName(id)
    IN { {},
         { Entry("secrets", ns, ForeignKeyPairSecret(id)),
           Entry("secrets", ns, ForeignCASecret(id, FALSE)) },
         { Entry("secrets", ns, ForeignCASecret(id, TRUE)) } }

Init ==
    /\ identity \in Identities
    /\ store \in InitStores(identity)
    /\ validationWebhookCaBundle = NoBytes
    /\ conversionWebhookCaBundle = NoBytes
    /\ calls = 0
    /\ trace = <<>>
    /\ last = NoCall
    /\ before = {}

Idle == last = NoCall /\ calls < MaxCalls

Start == World(store, validationWebhookCaBundle, conversionWebhookCaBundle)

\* common tail of every call: the result of running it becomes the state.
\* An injected failure the call never reaches is the same call as one
\* without a failure, so it is not taken again.
Finish(r, failAt, call) ==
    /\ failAt <= NumApi(r.trace)
    /\ store' = r.store
    /\ validationWebhookCaBundle' = r.validationWebhookCaBundle
    /\ conversionWebhookCaBundle' = r.conversionWebhookCaBundle
    /\ trace' = r.trace
    /\ last' = [call EXCEPT !.ret = r.ret, !.bytes = r.bytes]
    /\ before' = store
    /\ calls' = calls + 1
    /\ UNCHANGED identity

\* the caller takes the result and goes on to its next call
Return ==
    /\ last # NoCall
    /\ last' = NoCall
    /\ trace' = <<>>
    /\ before' = {}
    /\ UNCHANGED <<store, identity, validationWebhookCaBundle, conversionWebhookCaBundle,
                   calls>>

\* Certificate material is random bytes of which the installer and the
\* cluster only ever observe equality.  The material of a call is therefore
\* either one the cluster or a cache already holds, or new material, named by
\* the lowest generation not in use.
GensHeld(st, vca, cca) ==
    {g \in 1..MaxCerts :
        \/ CaOf(g) \in {vca, cca}
        \/ \E e \in st : /\ e.obj.kind = "Secret"
                         /\ \E d \in e.obj.spec.data :
                               d[2] \in {CaOf(g), PublicOf(g), PrivateOf(g)}}

CertChoices ==
    LET held == GensHeld(store, validationWebhookCaBundle, conversionWebhookCaBundle)
    IN {g \in 1..MaxCerts : g \in held \/ \A h \in 1..(g - 1) : h \in held}

\* what the cluster may offer: any of the candidate versions for CSIDriver,
\* any of the versions that exist for StorageClass
Advertisements ==
    {adv \in [Kinds -> SUBSET Versions] : adv["StorageClass"] \subseteq {"v1", "v1beta1"}}

CreateNamespace ==
    /\ Idle
    /\ \E dryRun \in BOOLEAN, writer \in Writers, failAt \in 0..1 :
         LET r == CreateNamespaceRes(Start, identity, dryRun, writer, failAt)
         IN Finish(r, failAt, Call("CreateNamespace", dryRun, writer, NoAdv, NoArgs))

CreateCSIDriver ==
    /\ Idle
    /\ \E adv \in Advertisements, dryRun \in BOOLEAN, writer \in Writers, failAt \in 0..2 :
         LET r == CreateCSIDriverRes(Start, adv, identity, dryRun, writer, failAt)
         IN /\ adv["StorageClass"] = {"v1"}
            /\ Finish(r, failAt, Call("CreateCSIDriver", dryRun, writer, adv, NoArgs))

CreateStorageClass ==
    /\ Idle
    /\ \E adv \in Advertisements, dryRun \in BOOLEAN, writer \in Writers, failAt \in 0..2 :
         LET r == CreateStorageClassRes(Start, adv, identity, dryRun, writer, failAt)
         IN Finish(r, failAt, Call("CreateStorageClass", dryRun, writer, adv, NoArgs))

CreateService ==
    /\ Idle
    /\ \E dryRun \in BOOLEAN, writer \in Writers, failAt \in 0..1 :
         LET r == CreateServiceRes(Start, identity, dryRun, writer, failAt)
         IN Finish(r, failAt, Call("CreateService", dryRun, writer, NoAdv, NoArgs))

CreateDaemonSet ==
    /\ Idle
    /\ \E flags \in DaemonSetFlags, s \in 1..NumSuffixes,
          dryRun \in BOOLEAN, writer \in Writers, failAt \in 0..1 :
         LET r == CreateDaemonSetRes(Start, identity, flags, s, dryRun, writer, failAt)
         IN Finish(r, failAt, Call("CreateDaemonSet", dryRun, writer, NoAdv, flags))

CreateControllerService ==
    /\ Idle
    /\ \E s \in 1..NumSuffixes, dryRun \in BOOLEAN, failAt \in 0..1 :
         LET r == CreateControllerServiceRes(Start, generateSanitizedUniqueNameFrom(SanitizeKubeResourceName(identity), s), identity, dryRun, failAt)
         IN Finish(r, failAt, Call("CreateControllerService", dryRun, "nil", NoAdv, NoArgs))

CreateControllerSecret ==
    /\ Idle
    /\ \E g \in CertChoices, dryRun \in BOOLEAN, failAt \in 0..1 :
         LET r == CreateControllerSecretRes(Start, identity, PublicOf(g), PrivateOf(g), dryRun, failAt)
         IN Finish(r, failAt, Call("CreateControllerSecret", dryRun, "nil", NoAdv,
                      [ca |-> NoBytes, public |-> PublicOf(g), private |-> PrivateOf(g)]))

CreateDeployment ==
    /\ Idle
    /\ \E s \in 1..NumSuffixes, g \in CertChoices, certOk \in BOOLEAN,
          dryRun \in BOOLEAN, writer \in Writers, failAt \in 0..3 :
         LET r == CreateDeploymentRes(Start, identity, s, g, certOk, dryRun, writer, failAt)
         IN /\ ~certOk => (g = 1 /\ failAt = 0)
            /\ Finish(r, failAt, Call("CreateDeployment", dryRun, writer, NoAdv,
                      IF certOk THEN [ca |-> CaOf(g), public |-> PublicOf(g),
                      private |-> PrivateOf(g)]
                      ELSE NoArgs))

RegisterDriveValidationRules ==
    /\ Idle
    /\ \E dryRun \in BOOLEAN, writer \in Writers, failAt \in 0..1 :
         LET r == RegisterDriveValidationRulesRes(Start, identity, dryRun, writer, failAt)
         IN Finish(r, failAt, Call("RegisterDriveValidationRules", dryRun, writer, NoAdv, NoArgs))

CreateOrUpdateConversionKeyPairSecret ==
    /\ Idle
    /\ \E g \in CertChoices, dryRun \in BOOLEAN, writer \in Writers, failAt \in 0..2 :
         LET r == CreateOrUpdateConversionKeyPairSecretRes(Start, identity, PublicOf(g), PrivateOf(g), dryRun, writer, failAt)
         IN Finish(r, failAt, Call("CreateOrUpdateConversionKeyPairSecret", dryRun, writer, NoAdv,
                      [ca |-> NoBytes, public |-> PublicOf(g), private |-> PrivateOf(g)]))

CreateOrUpdateConversionCACertSecret ==
    /\ Idle
    /\ \E g \in CertChoices, dryRun \in BOOLEAN, writer \in Writers, failAt \in 0..2 :
         LET r == CreateOrUpdateConversionCACertSecretRes(Start, identity, CaOf(g), dryRun, writer, failAt)
         IN Finish(r, failAt, Call("CreateOrUpdateConversionCACertSecret", dryRun, writer, NoAdv,
                      [ca |-> CaOf(g), public |-> NoBytes, private |-> NoBytes]))

GetConversionCABundle ==
    /\ Idle
    /\ \E dryRun \in BOOLEAN, failAt \in 0..1 :
         LET r == GetConversionCABundleRes(Start, identity, dryRun, failAt)
         IN Finish(r, failAt, Call("GetConversionCABundle", dryRun, "nil", NoAdv, NoArgs))

CreateConversionWebhookSecrets ==
    /\ Idle
    /\ \E g \in CertChoices, certOk \in BOOLEAN,
          dryRun \in BOOLEAN, writer \in Writers, failAt \in 0..6 :
         LET r == CreateConversionWebhookSecretsRes(Start, identity, g, certOk, dryRun, writer, failAt)
         IN /\ ~certOk => g = 1
            /\ Finish(r, failAt, Call("CreateConversionWebhookSecrets", dryRun, writer, NoAdv,
                      IF certOk THEN [ca |-> CaOf(g), public |-> PublicOf(g),
                      private |-> PrivateOf(g)]
                      ELSE NoArgs))

Next ==
    \/ CreateNamespace
    \/ CreateCSIDriver
    \/ CreateStorageClass
    \/ CreateService
    \/ CreateDaemonSet
    \/ CreateControllerService
    \/ CreateControllerSecret
    \/ CreateDeployment
    \/ RegisterDriveValidationRules
    \/ CreateOrUpdateConversionKeyPairSecret
    \/ CreateOrUpdateConversionCACertSecret
    \/ GetConversionCABundle
    \/ CreateConversionWebhookSecrets
    \/ Return

Spec == Init /\ [][Next]_vars

----------------------------------------------------------------------------
(* Reading the effects of the call that just returned *)

Positions(evs) == {i \in DOMAIN trace : trace[i].ev \in evs}

Count(evs) == Cardinality(Positions(evs))

Namespace == SanitizeKubeResourceName(identity)

SecretIn(st, name) == Lookup(st, "secrets", Namespace, name)

CreatedByAnnotation == <<CreatedByLabel, DirectCSIPluginName>>
AppLabels == { <<"app", DirectCSI>>, <<"type", CSIDriver>> }

\* the installer operations that take a dryRun argument and install something
InstallerOps ==
    {"CreateNamespace", "CreateCSIDriver", "CreateStorageClass", "CreateService",
     "CreateDaemonSet", "CreateDeployment", "CreateControllerSecret",
     "CreateControllerService", "RegisterDriveValidationRules",
     "CreateOrUpdateConversionKeyPairSecret", "CreateOrUpdateConversionCACertSecret",
     "CreateConversionWebhookSecrets"}

ReconcileOps == {"CreateOrUpdateConversionKeyPairSecret",
                 "CreateOrUpdateConversionCACertSecret"}

ReconcileName(op) ==
    IF op = "CreateOrUpdateConversionKeyPairSecret" THEN conversionKeyPair
    ELSE conversionCACert

\* the data map a reconcile call builds from its arguments
SuppliedData(call) ==
    IF call.op = "CreateOrUpdateConversionKeyPairSecret"
    THEN { <<privateKeyFileName, call.args.private>>, <<publicCertFileName, call.args.public>> }
    ELSE { <<caCertFileName, call.args.ca>> }

----------------------------------------------------------------------------
(* C1 *)

\* C1 as stated: a dry-run call of an installer operation issues no get,
\* create or update call to the API.
C1_DryRunNoGetCreateUpdate ==
    (last.op \in InstallerOps /\ last.dryRun) => Count({"get", "create", "update"}) = 0

\* C1 amended: a dry-run call of an installer operation issues no create
\* and no update call and leaves the cluster as it was; the only get calls
\* issued in dry-run are the fetches of the conversion key-pair secret and
\* then of the conversion CA secret that CreateConversionWebhookSecrets
\* makes first (checkConversionSecrets), before anything is written.
C1_DryRunNoCreateUpdate ==
    (last.op \in InstallerOps /\ last.dryRun) =>
        /\ Count({"create", "update"}) = 0
        /\ store = before
        /\ \A i \in Positions({"get"}) :
             /\ last.op = "CreateConversionWebhookSecrets"
             /\ i <= 2
             /\ trace[i].res = "secrets" /\ trace[i].ns = Namespace
             /\ trace[i].name = IF i = 1 THEN conversionKeyPair ELSE conversionCACert
             /\ \A j \in Positions({"write", "log"}) : i < j

C1_Witness ==
    /\ last.op = "CreateConversionWebhookSecrets" /\ last.dryRun /\ last.ret = NoErr
    /\ Count({"get"}) = 2
    /\ Count({"write"}) = 2

----------------------------------------------------------------------------
(* C2 *)

\* C2 as stated: when a writer is supplied, every resource a call logs,
\* creates or updates has been serialized to the writer earlier in that call.
C2_WrittenBeforeSubmitted ==
    last.writer # "nil" =>
        \A i \in Positions({"log", "create", "update"}) :
            \E j \in Positions({"write"}) :
                /\ j < i
                /\ trace[j].obj.kind = trace[i].obj.kind
                /\ trace[j].obj.apiVersion = trace[i].obj.apiVersion
                /\ trace[j].obj.meta.name = trace[i].obj.meta.name

----------------------------------------------------------------------------
(* C3 *)

\* C3: after a successful non-dry-run CreateOrUpdateConversionKeyPairSecret
\* (or ...CACertSecret) the secret exists and holds exactly the supplied
\* data, whatever the cluster held before; the call created it when it was
\* absent and updated it in place (same metadata) when it was present, so a
\* second call with other data leaves the second call's data.
C3_ReconcileConverges ==
    (last.op \in ReconcileOps /\ ~last.dryRun /\ last.ret = NoErr) =>
        LET now == SecretIn(store, ReconcileName(last.op))
            was == SecretIn(before, ReconcileName(last.op))
        IN /\ Cardinality(now) = 1
           /\ \A e \in now : e.obj.spec.data = SuppliedData(last)
           /\ was = {} => (Count({"create"}) = 1 /\ Count({"update"}) = 0)
           /\ was # {} => /\ Count({"update"}) = 1 /\ Count({"create"}) = 0
                          /\ \A e \in now, b \in was : e.obj.meta = b.obj.meta

\* the second of two calls: the secret created with the first triple now
\* holds the second triple
C3_Witness ==
    /\ last.op = "CreateOrUpdateConversionKeyPairSecret" /\ ~last.dryRun /\ last.ret = NoErr
    /\ calls = 2
    /\ \E b \in SecretIn(before, conversionKeyPair) :
         /\ b.obj.meta.labels = {}
         /\ <<privateKeyFileName, PrivateOf(1)>> \in b.obj.spec.data
    /\ \E e \in SecretIn(store, conversionKeyPair) :
         e.obj.spec.data = { <<privateKeyFileName, PrivateOf(2)>>,
                             <<publicCertFileName, PublicOf(2)>> }

----------------------------------------------------------------------------
(* C4 *)

\* C4: in a non-dry-run reconcile call the result of the fetch alone decides
\* the write: NotFound gives one create and no update; a successful fetch
\* gives one update, of the fetched object with its data replaced, and no
\* create; any other fetch error is returned, nothing is written and the
\* cluster is unchanged.
C4_FetchDecidesWrite ==
    (last.op \in ReconcileOps /\ ~last.dryRun) =>
        \A i \in Positions({"get"}) :
            LET was == SecretIn(before, ReconcileName(last.op))
            IN /\ Count({"get"}) = 1
               /\ trace[i].err = ErrNotFound =>
                    /\ Count({"create"}) = 1 /\ Count({"update"}) = 0
                    /\ \A j \in Positions({"create"}) :
                         /\ trace[j].obj.spec.data = SuppliedData(last)
                         /\ trace[j].obj.meta.name = ReconcileName(last.op)
               /\ trace[i].err = NoErr =>
                    /\ Count({"update"}) = 1 /\ Count({"create"}) = 0
                    /\ \A j \in Positions({"update"}), b \in was :
                         trace[j].obj = [b.obj EXCEPT !.spec.data = SuppliedData(last)]
               /\ trace[i].err \notin {ErrNotFound, NoErr} =>
                    /\ last.ret = trace[i].err
                    /\ Count({"create", "update"}) = 0
                    /\ store = before

C4_Witness ==
    /\ last.op = "CreateOrUpdateConversionCACertSecret" /\ ~last.dryRun
    /\ last.ret = ErrOther
    /\ Count({"get"}) = 1 /\ trace[Len(trace)].ev = "get"
    /\ SecretIn(before, conversionCACert) # {}

----------------------------------------------------------------------------
(* C5 *)

BuildableVersions == {"v1", "v1beta1"}

\* C5: when the cluster offers neither v1 nor v1beta1 for the kind the
\* operation asks the negotiator about (it may offer v1alpha1 only),
\* CreateCSIDriver and CreateStorageClass return the unsupported-version
\* error, write nothing to the writer and issue no create call.
C5_UnsupportedVersion ==
    \A i \in Positions({"discover"}) :
        (trace[i].err # ErrOther /\ last.adv[trace[i].res] \cap BuildableVersions = {}) =>
            /\ last.ret = ErrKubeVersionNotSupported
            /\ Count({"write", "log", "create", "update"}) = 0
            /\ store = before

C5_Witness ==
    /\ last.op = "CreateCSIDriver" /\ ~last.dryRun /\ last.writer = "good"
    /\ last.adv["CSIDriver"] = {"v1alpha1"}
    /\ last.ret = ErrKubeVersionNotSupported
    /\ Count({"discover"}) = 1 /\ trace[1].err = NoErr

----------------------------------------------------------------------------
(* C6 *)

\* the one create failure the installer swallows
Tolerated(i) ==
    /\ last.op = "CreateDeployment"
    /\ trace[i].res = "secrets"
    /\ trace[i].name = admissionWebhookSecretName
    /\ IsAlreadyExists(trace[i].err)

\* C6: a failed create call ends the operation and its error is the
\* operation's result, AlreadyExists included, except the AlreadyExists of
\* the controller-secret create inside CreateDeployment, after which the
\* operation goes on to write and create the deployment.
C6_AlreadyExistsToleratedOnce ==
    \A i \in Positions({"create"}) :
        trace[i].err # NoErr =>
            IF Tolerated(i)
            THEN \/ last.ret = ErrWrite
                 \/ \E j \in Positions({"create"}) : j > i /\ trace[j].res = "deployments"
            ELSE i = Len(trace) /\ last.ret = trace[i].err

C6_Witness ==
    /\ last.op = "CreateDeployment" /\ last.ret = NoErr
    /\ \E i \in Positions({"create"}) : Tolerated(i)
    /\ \E j \in Positions({"create"}) : trace[j].res = "deployments" /\ trace[j].err = NoErr

----------------------------------------------------------------------------
(* C7 *)

IsWorkload(o) == o.kind \in {"DaemonSet", "Deployment"}

IsControllerService(o) == o.kind = "Service" /\ o.meta.name = validationControllerName

EmittedObjects == {trace[i].obj : i \in Positions({"write", "log", "create", "update"})}

\* C7: every daemon set or deployment a call emits has a selector of one
\* label, the selector token, and that label is among the labels of its pod
\* template; all workloads of one call carry the same token; and the
\* controller service CreateDeployment creates selects on the token of the
\* deployment of the same call.
C7_SelectorMatchesTemplate ==
    /\ \A o \in EmittedObjects :
         IsWorkload(o) =>
            /\ Cardinality(o.spec.selector) = 1
            /\ \A l \in o.spec.selector : l[1] = directCSISelector
            /\ o.spec.selector \subseteq o.spec.template.meta.labels
    /\ \A o1, o2 \in EmittedObjects :
         (IsWorkload(o1) /\ IsWorkload(o2)) => o1.spec.selector = o2.spec.selector
    /\ last.op = "CreateDeployment" =>
         \A d, c \in EmittedObjects :
            (d.kind = "Deployment" /\ IsControllerService(c)) =>
                /\ c.spec.selector = d.spec.selector
                /\ c.spec.selector \subseteq d.spec.template.meta.labels

C7_Witness ==
    /\ last.op = "CreateDeployment" /\ ~last.dryRun /\ last.ret = NoErr
    /\ \E d, c \in EmittedObjects :
         /\ d.kind = "Deployment" /\ IsControllerService(c)
         /\ c.spec.selector =
              { <<directCSISelector, generateSanitizedUniqueNameFrom(Namespace, 2)>> }

----------------------------------------------------------------------------
(* C8 *)

CAValues(st) ==
    {kv[2] : kv \in {d \in UNION {e.obj.spec.data : e \in SecretIn(st, conversionCACert)} :
                        d[1] = caCertFileName}}

\* C8: GetConversionCABundle returns the cached conversion CA bundle only
\* when the fetch says NotFound and dryRun is set (the empty-CA-bundle error
\* when nothing is cached); NotFound without dryRun and any other fetch
\* error are returned as they are; a secret that exists gives its stored CA
\* value whatever is cached, or the empty-CA-bundle error when it has no CA
\* key.  The cache holds the CA of the last certificates
\* CreateConversionWebhookSecrets generated.
C8_CABundleFallback ==
    /\ last.op = "GetConversionCABundle" =>
         /\ Len(trace) = 1 /\ trace[1].ev = "get" /\ trace[1].name = conversionCACert
         /\ (IsNotFound(trace[1].err) /\ last.dryRun) =>
              IF conversionWebhookCaBundle = NoBytes
              THEN last.ret = errEmptyCABundle /\ last.bytes = NoBytes
              ELSE last.ret = NoErr /\ last.bytes = conversionWebhookCaBundle
         /\ (trace[1].err # NoErr /\ ~(IsNotFound(trace[1].err) /\ last.dryRun)) =>
              last.ret = trace[1].err /\ last.bytes = NoBytes
         /\ trace[1].err = NoErr =>
              IF CAValues(store) = {}
              THEN last.ret = errEmptyCABundle /\ last.bytes = NoBytes
              ELSE last.ret = NoErr /\ last.bytes \in CAValues(store)
    /\ (/\ last.op = "CreateConversionWebhookSecrets"
        /\ last.args.ca # NoBytes
        /\ \E i \in Positions({"get"}) : i <= 2 /\ IsNotFound(trace[i].err)) =>
         conversionWebhookCaBundle = last.args.ca

\* the preview case: nothing in the cluster, the bundle comes from the cache
C8_Witness ==
    /\ last.op = "GetConversionCABundle" /\ last.dryRun
    /\ IsNotFound(trace[1].err)
    /\ store = {}
    /\ last.ret = NoErr /\ last.bytes = CaOf(1)

----------------------------------------------------------------------------
(* C9 *)

IsWebhookConfig(o) == o.kind = "ValidatingWebhookConfiguration"

\* C9 as stated: every validating webhook configuration written to the
\* writer or submitted to the API carries a non-empty CA bundle.
C9_CABundleNeverEmpty ==
    \A i \in Positions({"write", "create", "update"}) :
        IsWebhookConfig(trace[i].obj) =>
            \A h \in DOMAIN trace[i].obj.spec.webhooks :
                Len(trace[i].obj.spec.webhooks[h].clientConfig.caBundle) > 0

----------------------------------------------------------------------------
(* C10 *)

\* C10 as stated: every object written or submitted carries the created-by
\* annotation and the app/type labels.
C10_EveryObjectTagged ==
    \A i \in Positions({"write", "create", "update"}) :
        /\ CreatedByAnnotation \in trace[i].obj.meta.annotations
        /\ AppLabels \subseteq trace[i].obj.meta.labels

----------------------------------------------------------------------------
(* C11 *)

\* the service references of the webhook configurations a call emits
ServiceRefs ==
    {o.spec.webhooks[1].clientConfig.service :
        o \in {x \in EmittedObjects : IsWebhookConfig(x)}}

\* the services in the cluster a reference resolves to
Resolves(ref, st) ==
    {e \in st : /\ e.res = "services"
                /\ e.ns = ref.namespace
                /\ e.obj.meta.namespace = ref.namespace
                /\ e.obj.meta.name = ref.name}

\* the service CreateService builds, told from the controller service by
\* the label it selects on
IsPluginService(o) ==
    o.kind = "Service" /\ \E l \in o.spec.selector : l[1] = webhookSelector

SelectsControllerPods(o) ==
    o.kind = "Service" /\ \E l \in o.spec.selector : l[1] = directCSISelector

\* C11: related resources refer to each other by identical names.  The
\* service reference of every emitted webhook configuration has the name and
\* namespace of the controller service CreateControllerService builds for
\* the same identity, and every emitted controller service has that name and
\* namespace; the namespace a namespaced create is sent to is the namespace
\* in the metadata of the submitted object; every emitted service of
\* CreateService carries the selector its builder gives it, and that selector
\* is satisfied by the pod-template labels of every emitted daemon set and
\* deployment.
C11_RelatedNamesAgree ==
    LET emitted == EmittedObjects
    IN /\ \A ref \in ServiceRefs : \A t \in 1..NumSuffixes :
            LET svc == ControllerServiceObj(generateSanitizedUniqueNameFrom(Namespace, t),
                                            identity)
            IN ref.name = svc.meta.name /\ ref.namespace = svc.meta.namespace
       /\ \A c \in emitted :
            SelectsControllerPods(c) =>
               LET ref == getDriveValidatingWebhookConfig(Start, identity)
                              .spec.webhooks[1].clientConfig.service
               IN c.meta.name = ref.name /\ c.meta.namespace = ref.namespace
       /\ \A i \in Positions({"create"}) :
            trace[i].ns # EmptyName => trace[i].ns = trace[i].obj.meta.namespace
       /\ \A o \in emitted :
            /\ IsPluginService(o) => o.spec.selector = ServiceObj(identity).spec.selector
            /\ IsWorkload(o) =>
                  ServiceObj(identity).spec.selector \subseteq o.spec.template.meta.labels

\* the webhook configuration is registered in a cluster that holds the
\* controller service of an earlier CreateDeployment, and its reference
\* resolves to that service
C11_Witness ==
    /\ last.op = "RegisterDriveValidationRules" /\ ~last.dryRun /\ last.ret = NoErr
    /\ ServiceRefs # {}
    /\ \A ref \in ServiceRefs : Resolves(ref, store) # {}
    /\ Lookup(store, "deployments", Namespace, Namespace) # {}

----------------------------------------------------------------------------
(* C12 *)

\* the apiVersion strings of storage.k8s.io the cluster serves for a kind
\* during the call
ServedAPIVersions(kind) ==
    {a \in {"storage.k8s.io/v1", "storage.k8s.io/v1beta1"} :
        \/ a = "storage.k8s.io/v1" /\ "v1" \in last.adv[kind]
        \/ a = "storage.k8s.io/v1beta1" /\ "v1beta1" \in last.adv[kind]}

\* C12 as stated: CreateStorageClass submits a storage class only in a
\* version the cluster serves for the StorageClass kind, and when the
\* cluster serves none that the installer can build the call ends with the
\* unsupported-version error (unless discovery itself failed).
C12_StorageClassVersionServed ==
    last.op = "CreateStorageClass" =>
        /\ \A i \in Positions({"create"}) :
              trace[i].obj.apiVersion \in ServedAPIVersions("StorageClass")
        /\ (ServedAPIVersions("StorageClass") = {} /\ trace[1].err # ErrOther) =>
              last.ret = ErrKubeVersionNotSupported

----------------------------------------------------------------------------
(* C13 *)

\* the positions of the API calls of the call, in the order they were issued
ApiPositions == {i \in DOMAIN trace : IsApi(trace[i])}

\* the number of API calls issued up to and including position i
ApiRank(i) == Cardinality({j \in ApiPositions : j <= i})

DeploymentCallOrder == <<"secrets", "deployments", "services">>

\* an API call after which CreateDeployment goes on
PassedBy(i) ==
    \/ trace[i].err = NoErr
    \/ ApiRank(i) = 1 /\ IsAlreadyExists(trace[i].err)

\* C13: the API calls of a non-dry-run CreateDeployment are creates, issued
\* in the order controller secret, deployment, controller service; a call is
\* issued only after every earlier one succeeded (the secret create may have
\* answered AlreadyExists); a certificate error ends the operation before any
\* call; a failed write or a create error that is not tolerated is the last
\* effect of the operation and its result; and the operation succeeds only
\* after all three calls.
C13_DeploymentCallOrder ==
    (last.op = "CreateDeployment" /\ ~last.dryRun) =>
        /\ Cardinality(ApiPositions) <= 3
        /\ \A i \in ApiPositions :
              /\ trace[i].ev = "create"
              /\ trace[i].res = DeploymentCallOrder[ApiRank(i)]
              /\ \A j \in ApiPositions : j < i => PassedBy(j)
              /\ ~PassedBy(i) => (i = Len(trace) /\ last.ret = trace[i].err)
        /\ last.args = NoArgs => (trace = <<>> /\ last.ret = ErrCert)
        /\ last.ret = ErrCert => trace = <<>>
        /\ \A i \in Positions({"write"}) :
              trace[i].err # NoErr => (i = Len(trace) /\ last.ret = trace[i].err)
        /\ last.ret = NoErr =>
              (Cardinality(ApiPositions) = 3 /\ \A i \in ApiPositions : PassedBy(i))
        /\ (Cardinality(ApiPositions) = 3 /\ \A i \in ApiPositions : PassedBy(i)) =>
              last.ret = NoErr

\* the deployment create fails after the secret was created: the error
\* comes back and the controller service is never asked for
C13_Witness ==
    /\ last.op = "CreateDeployment" /\ ~last.dryRun
    /\ Cardinality(ApiPositions) = 2
    /\ \E i, j \in ApiPositions :
         /\ i < j
         /\ trace[i].res = "secrets" /\ trace[i].err = NoErr
         /\ trace[j].res = "deployments" /\ trace[j].err = ErrOther
    /\ last.ret = ErrOther

----------------------------------------------------------------------------
(* C14 *)

\* the CA certificate ca issued the key pair held in the secret data
IssuedBy(ca, data) ==
    \E g \in 1..MaxCerts :
        /\ ca = CaOf(g)
        /\ data = { <<privateKeyFileName, PrivateOf(g)>>, <<publicCertFileName, PublicOf(g)>> }

\* C14 as stated: after a successful non-dry-run CreateDeployment the cached
\* validation CA bundle is the CA that issued the key pair stored in the
\* admission webhook secret of the cluster, also when the secret existed
\* before the call; and a webhook configuration emitted by
\* RegisterDriveValidationRules embeds the cached bundle.
C14_CachedCAIssuedStoredPair ==
    /\ (last.op = "CreateDeployment" /\ ~last.dryRun /\ last.ret = NoErr) =>
          /\ SecretIn(store, admissionWebhookSecretName) # {}
          /\ \A e \in SecretIn(store, admissionWebhookSecretName) :
                IssuedBy(validationWebhookCaBundle, e.obj.spec.data)
    /\ last.op = "RegisterDriveValidationRules" =>
          \A o \in EmittedObjects :
             IsWebhookConfig(o) =>
                o.spec.webhooks[1].clientConfig.caBundle = validationWebhookCaBundle

----------------------------------------------------------------------------
(* C15 *)

\* number of CreateConversionWebhookSecrets calls in one run of re-runs
MaxReruns == 3

\* the conversion secrets are both absent, or both there and of one
\* certificate generation (here: put there by somebody else)
ConsistentStores(id) ==
    LET ns == SanitizeKubeResourceName(id)
    IN { {},
         { Entry("secrets", ns, ForeignKeyPairSecret(id)),
           Entry("secrets", ns, ForeignCASecret(id, TRUE)) } }

InitReruns ==
    /\ identity \in Identities
    /\ store \in ConsistentStores(identity)
    /\ validationWebhookCaBundle = NoBytes
    /\ conversionWebhookCaBundle = NoBytes
    /\ calls = 0
    /\ trace = <<>>
    /\ last = NoCall
    /\ before = {}

\* a non-dry-run CreateConversionWebhookSecrets, any of whose API calls may
\* fail and whose certificate generation may fail
RerunConversionWebhookSecrets ==
    /\ last = NoCall /\ calls < MaxReruns
    /\ \E g \in CertChoices, certOk \in BOOLEAN, writer \in Writers, failAt \in 0..6 :
         LET r == CreateConversionWebhookSecretsRes(Start, identity, g, certOk, FALSE, writer, failAt)
         IN /\ ~certOk => g = 1
            /\ Finish(r, failAt, Call("CreateConversionWebhookSecrets", FALSE, writer, NoAdv,
                      IF certOk THEN [ca |-> CaOf(g), public |-> PublicOf(g),
                      private |-> PrivateOf(g)]
                      ELSE NoArgs))

NextReruns ==
    \/ RerunConversionWebhookSecrets
    \/ Return

SpecReruns == InitReruns /\ [][NextReruns]_vars

\* both conversion secrets are in the cluster and hold the key pair and the
\* CA certificate of one certificate generation
SameGeneration(st) ==
    /\ SecretIn(st, conversionKeyPair) # {}
    /\ SecretIn(st, conversionCACert) # {}
    /\ \E g \in 0..MaxCerts :
         /\ \A e \in SecretIn(st, conversionKeyPair) :
               e.obj.spec.data = { <<privateKeyFileName, PrivateOf(g)>>,
                                   <<publicCertFileName, PublicOf(g)>> }
         /\ \A e \in SecretIn(st, conversionCACert) :
               e.obj.spec.data = { <<caCertFileName, CaOf(g)>> }

\* C15: in a run of non-dry-run CreateConversionWebhookSecrets calls that
\* starts from a cluster where the conversion secrets are both absent or of
\* one generation, whenever a call returns without error both secrets exist
\* and hold a key pair and a CA certificate of one generation; and whenever
\* both secrets exist, they are of one generation, whatever failed before.
C15_ConversionSecretsConsistent ==
    /\ (last.op = "CreateConversionWebhookSecrets" /\ last.ret = NoErr) =>
          SameGeneration(store)
    /\ (SecretIn(store, conversionKeyPair) # {} /\ SecretIn(store, conversionCACert) # {}) =>
          SameGeneration(store)

\* a re-run after a partial failure: the earlier call left a key pair of
\* generation 1 and no CA secret, this call returns without error and both
\* secrets are of generation 2
C15_Witness ==
    /\ last.op = "CreateConversionWebhookSecrets" /\ last.ret = NoErr
    /\ \E e \in SecretIn(before, conversionKeyPair) :
          <<privateKeyFileName, PrivateOf(1)>> \in e.obj.spec.data
    /\ SecretIn(before, conversionCACert) = {}
    /\ \E e \in SecretIn(store, conversionCACert) :
          e.obj.spec.data = { <<caCertFileName, CaOf(2)>> }
    /\ SameGeneration(store)

----------------------------------------------------------------------------
(* C16 *)

\* the fetches of checkConversionSecrets are the first effects of the call;
\* one of them said NotFound
CheckSaidNotFound ==
    \E i \in Positions({"get"}) : i <= 2 /\ IsNotFound(trace[i].err)

BothConversionSecretsIn(st) ==
    SecretIn(st, conversionKeyPair) # {} /\ SecretIn(st, conversionCACert) # {}

\* C16: a step that is a CreateConversionWebhookSecrets call in which no
\* fetch of the check said NotFound generates no certificates (the cached
\* conversion CA bundle stays as it was and no certificate error comes
\* back), writes nothing, creates and updates nothing and leaves the cluster
\* as it was; its result is the error of the failed fetch, or success when
\* both fetches succeeded; with both secrets in the cluster and no fetch
\* failing in transport, both fetches succeed.
C16_NoOpWhenBothExist ==
    [][ last'.op = "CreateConversionWebhookSecrets" =>
          /\ ~CheckSaidNotFound' =>
                /\ conversionWebhookCaBundle' = conversionWebhookCaBundle
                /\ store' = store
                /\ last'.ret # ErrCert
                /\ \A i \in DOMAIN trace' : trace'[i].ev = "get"
                /\ Len(trace') \in {1, 2}
                /\ \A i \in DOMAIN trace' : i < Len(trace') => trace'[i].err = NoErr
                /\ last'.ret = trace'[Len(trace')].err
                /\ last'.ret = NoErr => Len(trace') = 2
          /\ (BothConversionSecretsIn(store)
                /\ \A i \in DOMAIN trace' : trace'[i].err # ErrOther) =>
                /\ ~CheckSaidNotFound'
                /\ last'.ret = NoErr
      ]_vars

\* both secrets exist, certificates were on offer, and the call returned
\* success after two fetches without taking them into the cache
C16_Witness ==
    /\ last.op = "CreateConversionWebhookSecrets" /\ ~last.dryRun /\ last.writer = "good"
    /\ last.ret = NoErr
    /\ BothConversionSecretsIn(before) /\ store = before
    /\ Len(trace) = 2
    /\ last.args.ca # NoBytes /\ conversionWebhookCaBundle # last.args.ca

----------------------------------------------------------------------------
(* C17 *)

PodSpecOf(o) == o.spec.template.spec

VolumeNames(o) == {PodSpecOf(o).volumes[i].name : i \in DOMAIN PodSpecOf(o).volumes}

MountNames(c) == {c.volumeMounts[i].name : i \in DOMAIN c.volumeMounts}

ContainersOf(o) == {PodSpecOf(o).containers[i] : i \in DOMAIN PodSpecOf(o).containers}

HasArg(o, flag) == \E c \in ContainersOf(o) : \E i \in DOMAIN c.args : c.args[i].flag = flag

HasSeccompProfile(o) ==
    \E c \in ContainersOf(o) : c.securityContext.seccompProfile # NoSeccompProfile

HasApparmorAnnotation(o) ==
    \E a \in o.spec.template.meta.annotations : a[1] = ApparmorAnnotationKey

DiscoveryVolumes == {volumeNameDevDir, volumeNameRunUdevData}

\* C17: in every daemon set a CreateDaemonSet call emits the optional
\* settings follow the inputs of the call: a seccomp profile is there iff
\* seccompProfileName is not empty (and then it is that profile), the
\* apparmor annotation iff apparmorProfileName is not empty (and then with
\* that value), the dev and udev-data volumes, their mounts, host networking
\* and --enable-dynamic-discovery iff enableDynamicDiscovery, and
\* --loopback-only iff loopBackOnly; and every volume mount of every
\* container names a volume of the pod spec.
C17_OptionalSettingsFollowFlags ==
    last.op = "CreateDaemonSet" =>
        \A o \in {x \in EmittedObjects : x.kind = "DaemonSet"} :
            LET flags == last.args
                volumes == VolumeNames(o)
                containers == ContainersOf(o)
            IN /\ HasSeccompProfile(o) <=> flags.seccompProfileName # EmptyName
               /\ \A c \in containers :
                     c.securityContext.seccompProfile # NoSeccompProfile =>
                        c.securityContext.seccompProfile[1].localhostProfile
                            = flags.seccompProfileName
               /\ HasApparmorAnnotation(o) <=> flags.apparmorProfileName # EmptyName
               /\ \A a \in o.spec.template.meta.annotations :
                     a[1] = ApparmorAnnotationKey => a[2] = flags.apparmorProfileName
               /\ \A v \in DiscoveryVolumes :
                     /\ v \in volumes <=> flags.enableDynamicDiscovery
                     /\ (\E c \in containers : v \in MountNames(c))
                            <=> flags.enableDynamicDiscovery
               /\ PodSpecOf(o).hostNetwork <=> flags.enableDynamicDiscovery
               /\ HasArg(o, "--enable-dynamic-discovery") <=> flags.enableDynamicDiscovery
               /\ HasArg(o, "--loopback-only") <=> flags.loopBackOnly
               /\ \A c \in containers : MountNames(c) \subseteq volumes

\* a daemon set created with dynamic discovery and a seccomp profile but
\* without apparmor profile and loopback
C17_Witness ==
    /\ last.op = "CreateDaemonSet" /\ ~last.dryRun /\ last.ret = NoErr
    /\ last.args.enableDynamicDiscovery /\ ~last.args.loopBackOnly
    /\ last.args.seccompProfileName # EmptyName /\ last.args.apparmorProfileName = EmptyName
    /\ \E i \in Positions({"create"}) :
         LET o == trace[i].obj
         IN /\ o.kind = "DaemonSet"
            /\ DiscoveryVolumes \subseteq VolumeNames(o)
            /\ HasSeccompProfile(o) /\ ~HasApparmorAnnotation(o)
            /\ ~HasArg(o, "--loopback-only")

----------------------------------------------------------------------------
(* C18 *)

\* longest name handed to generateSanitizedUniqueNameFrom
MaxNameLen == 260

\* one name of every length up to MaxNameLen
Names == {[i \in 1..n |-> "D"] : n \in 0..MaxNameLen}

InitNames ==
    /\ identity \in Names
    /\ store = {}
    /\ validationWebhookCaBundle = NoBytes
    /\ conversionWebhookCaBundle = NoBytes
    /\ calls = 0
    /\ trace = <<>>
    /\ last = NoCall
    /\ before = {}

\* one call of generateSanitizedUniqueNameFrom, as CreateDaemonSet and
\* CreateDeployment make it: on the sanitized identity; the returned string
\* is the bytes of the call
GenerateSelectorValue ==
    /\ last = NoCall /\ calls = 0
    /\ \E s \in 1..NumSuffixes :
         last' = [Call("generateSanitizedUniqueNameFrom", FALSE, "nil", NoAdv, NoArgs)
                     EXCEPT !.bytes = generateSanitizedUniqueNameFrom(
                                          SanitizeKubeResourceName(identity), s)]
    /\ calls' = calls + 1
    /\ UNCHANGED <<store, identity, validationWebhookCaBundle, conversionWebhookCaBundle,
                   trace, before>>

NextNames == GenerateSelectorValue

SpecNames == InitNames /\ [][NextNames]_vars

\* C18 as stated: the selector token generateSanitizedUniqueNameFrom returns
\* is at most 255 bytes long, whatever the length of the name.
C18_TokenAtMost255 ==
    last.op = "generateSanitizedUniqueNameFrom" => Len(last.bytes) <= 255

====
